---- MODULE Spec2Model ----
(***************************************************************************)
(* Model of the privacy core of mdl-anonymizer:                            *)
(*   - TimePartMicroaggregation.run / process_clusters                     *)
(*   - SwapLocations.run / __build_cluster                                 *)
(*   - Stats.get_record_linkage / get_fast_record_linkage /                *)
(*     __take_closest / __take_closest_window                              *)
(* Each subsystem has its own specification (SpecMicro, SpecSwap,          *)
(* SpecStats, SpecWindow); the variables of the other subsystems stay at   *)
(* their idle values.                                                      *)
(***************************************************************************)
EXTENDS Integers, Sequences, FiniteSets, TLC

VARIABLES
    \* ---- TimePartMicroaggregation ----
    dataset,                \* self.dataset.trajectories (list of trajectories)
    k,                      \* self.k
    interval,               \* self.interval
    ordered_trajectories,   \* local of run(): the not yet partitioned rest
    datasets,               \* local of run(): the batches built so far
    part_i,                 \* position of the clustering for-loop (0-based)
    clusters,               \* self.clusters (dict: cluster id -> trajectories)
    centroids,              \* self.centroids (dict: cluster id -> aggregate)
    anonymized_dataset,     \* self.anonymized_dataset.trajectories
    cluster_log,            \* history: every cluster handed to process_clusters
    ma_pc,                  \* position of run()
    \* ---- SwapLocations ----
    sw_dataset,             \* self.dataset.trajectories
    sw_params,              \* self.k, min/max radii, step_s/step_t (or unset)
    remaining_locations,    \* local of run(): the pool of (trajectory id, location)
    sw_anonymized,          \* self.anonymized_dataset.trajectories
    sw_last,                \* history: what the last loop iteration did
    sw_pc,                  \* position of run()
    \* ---- Stats (record linkage) ----
    st_original,            \* self.original_dataset.trajectories
    st_anonymized,          \* self.anonymized_dataset.trajectories
    st_window,              \* the window_size argument (or None)
    st_ref,                 \* the distance strategy's reference trajectory
    st_exact,               \* outcome of get_record_linkage, once called
    st_fast,                \* outcome of get_fast_record_linkage, once called
    \* ---- Stats.__take_closest / __take_closest_window on their own ----
    cw_list,                \* myList
    cw_number,              \* myNumber
    cw_size,                \* window_size
    cw_pos,                 \* result of __take_closest, once applied
    cw_window               \* result of __take_closest_window, once applied

maVars == <<dataset, k, interval, ordered_trajectories, datasets, part_i,
            clusters, centroids, anonymized_dataset, cluster_log, ma_pc>>

swVars == <<sw_dataset, sw_params, remaining_locations, sw_anonymized,
            sw_last, sw_pc>>

stVars == <<st_original, st_anonymized, st_window, st_ref, st_exact, st_fast>>

cwVars == <<cw_list, cw_number, cw_size, cw_pos, cw_window>>

vars == <<maVars, swVars, stVars, cwVars>>

\* what an operation of one subsystem leaves alone
notMaVars == <<swVars, stVars, cwVars>>
notSwVars == <<maVars, stVars, cwVars>>
notStVars == <<maVars, swVars, cwVars>>
notCwVars == <<maVars, swVars, stVars>>

----------------------------------------------------------------------------
(* Bounds of the model *)

MaxTraj == 4
MaxTs == 1
MaxK == 2
MaxInterval == 1
MaxBase == 1
MaxLocs == 3
MaxSwapK == 2
MaxOrig == 3
MaxAnon == 2
MaxListLen == 3
MaxValue == 3

----------------------------------------------------------------------------
(* Generic helpers *)

Range(s) == {s[i] : i \in DOMAIN s}

RECURSIVE Flatten(_)
Flatten(ss) == IF ss = <<>> THEN <<>> ELSE Head(ss) \o Flatten(Tail(ss))

RECURSIVE SetToSeq(_)
\* the elements of a finite set of integers in ascending order
SetToSeq(S) ==
    IF S = {} THEN <<>>
    ELSE LET m == CHOOSE x \in S : \A y \in S : x <= y
         IN <<m>> \o SetToSeq(S \ {m})

MinOf(S) == CHOOSE x \in S : \A y \in S : x <= y
MaxOf(S) == CHOOSE x \in S : \A y \in S : x >= y

EmptyDict == [x \in {} |-> 0]

----------------------------------------------------------------------------
(* Trajectories of the microaggregation model.  A trajectory has an id, a  *)
(* user id and a location sequence; a location is its timestamp.           *)

UserOf(id) == 100 + id

MkTrajectory(id, ts) == [id |-> id, user_id |-> UserOf(id), locations |-> <<ts>>]

FirstTs(t) == t.locations[1]

RECURSIVE InsertByKey(_, _, _)
\* insert position i into the sorted position list, after every position
\* whose key is <= keys[i] (Python's sort is stable)
InsertByKey(sorted, i, keys) ==
    IF sorted = <<>> THEN <<i>>
    ELSE IF keys[Head(sorted)] <= keys[i]
         THEN <<Head(sorted)>> \o InsertByKey(Tail(sorted), i, keys)
         ELSE <<i>> \o sorted

RECURSIVE SortedPositions(_, _)
\* the positions 1..n in ascending order of their keys, ties in list order
SortedPositions(n, keys) ==
    IF n = 0 THEN <<>>
    ELSE InsertByKey(SortedPositions(n - 1, keys), n, keys)

\* list.sort(key=...) / sorted(list, key=...): keys[i] is the key of s[i]
SortedBy(s, keys) ==
    LET perm == SortedPositions(Len(s), keys)
    IN [j \in 1..Len(s) |-> s[perm[j]]]

TrajId(t) == t.id

----------------------------------------------------------------------------
(* TimePartMicroaggregation.run: time partitioning                          *)

RECURSIVE WalkIndex(_, _, _)
\* the inner while loop of run(): index is 0-based as in the code, and
\* current_t is always ordered[index].locations[0].timestamp
WalkIndex(ordered, final_t, index) ==
    IF FirstTs(ordered[index + 1]) <= final_t /\ index < Len(ordered) - 1
    THEN WalkIndex(ordered, final_t, index + 1)
    ELSE index

RECURSIVE FillToK(_, _, _, _)
\* the force-fill loop: <<partition, index>> once the partition holds kk
FillToK(partition, ordered, index, kk) ==
    IF Len(partition) < kk
    THEN FillToK(Append(partition, ordered[index + 1]), ordered, index + 1, kk)
    ELSE <<partition, index>>

\* variant: the rest is sliced one position too far (ordered[index+1:])
NextPartitionSkipsOne(ordered, kk, itv) ==
    LET current_t == FirstTs(ordered[1])
        final_t == current_t + itv
        index == WalkIndex(ordered, final_t, 0)
        filled == FillToK(SubSeq(ordered, 1, index), ordered, index, kk)
    IN <<filled[1], SubSeq(ordered, filled[2] + 2, Len(ordered))>>

\* one iteration of the outer while loop: <<partition, rest>>
NextPartition(ordered, kk, itv) ==
    LET current_t == FirstTs(ordered[1])
        final_t == current_t + itv
        index == WalkIndex(ordered, final_t, 0)
        filled == FillToK(SubSeq(ordered, 1, index), ordered, index, kk)
    IN <<filled[1], SubSeq(ordered, filled[2] + 1, Len(ordered))>>

----------------------------------------------------------------------------
(* Collaborators of the orchestrator (interfaces only in this repository)  *)

DictSet(d, key, v) ==
    [x \in (DOMAIN d) \cup {key} |-> IF x = key THEN v ELSE d[x]]

\* AggregationInterface.compute: one representative for a cluster, a
\* function of the members' locations only
AggregationCompute(cluster_trajectories) ==
    LET stamps == {FirstTs(cluster_trajectories[i]) :
                       i \in DOMAIN cluster_trajectories}
    IN [locations |-> <<MinOf(stamps), MaxOf(stamps)>>]

\* restricted-growth labellings of 1..n: one per partition of the positions
Labellings(n) ==
    {g \in [1..n -> 1..n] :
        \A p \in 1..n :
            g[p] <= 1 + (IF p = 1 THEN 0 ELSE MaxOf({g[q] : q \in 1..(p - 1)}))}

RECURSIVE MembersFrom(_, _, _, _)
\* the trajectories of the batch labelled c, in batch order
MembersFrom(batch, g, c, p) ==
    IF p > Len(batch) THEN <<>>
    ELSE (IF g[p] = c THEN <<batch[p]>> ELSE <<>>)
         \o MembersFrom(batch, g, c, p + 1)

\* ClusteringInterface.get_clusters after set_dataset(batch); run(k): any
\* partition of the batch, under cluster ids base, base+1, ...
ClusteringsOf(batch) ==
    {[c \in {base + l - 1 : l \in {g[p] : p \in 1..Len(batch)}} |->
          MembersFrom(batch, g, c - base + 1, 1)] :
        g \in Labellings(Len(batch)), base \in 0..MaxBase}

----------------------------------------------------------------------------
(* TimePartMicroaggregation.process_clusters                               *)

RECURSIVE AddMembersOwnLocations(_, _, _)
\* variant: every member keeps its own locations instead of the aggregate's
AddMembersOwnLocations(anon, members, aggregate_trajectory) ==
    IF members = <<>> THEN anon
    ELSE AddMembersOwnLocations(
             Append(anon, [id |-> Head(members).id,
                           user_id |-> Head(members).user_id,
                           locations |-> Head(members).locations]),
             Tail(members), aggregate_trajectory)

RECURSIVE AddMembers(_, _, _)
\* for T in anon_trajectories: T.add_locations(...); add_trajectory(T)
AddMembers(anon, members, aggregate_trajectory) ==
    IF members = <<>> THEN anon
    ELSE AddMembers(
             Append(anon, [id |-> Head(members).id,
                           user_id |-> Head(members).user_id,
                           locations |-> aggregate_trajectory.locations]),
             Tail(members), aggregate_trajectory)

RECURSIVE ProcessFrom(_, _, _, _)
\* the loop "for c in self.clusters" over the keys still to visit:
\* <<centroids, anonymized trajectories>>
ProcessFrom(keys, cl, cents, anon) ==
    IF keys = <<>> THEN <<cents, anon>>
    ELSE LET c == Head(keys)
             cluster_trajectories == cl[c]
             aggregate_trajectory == AggregationCompute(cluster_trajectories)
         IN ProcessFrom(Tail(keys), cl,
                        DictSet(cents, c, aggregate_trajectory),
                        AddMembers(anon, cluster_trajectories,
                                   aggregate_trajectory))

ProcessClusters(cl, cents, anon) ==
    ProcessFrom(SetToSeq(DOMAIN cl), cl, cents, anon)

----------------------------------------------------------------------------
(* SwapLocations: data, constructor and the expanding search               *)

Coords == {0, 1}

\* Location.temporal_distance / Location.spatial_distance (geometry
\* primitives): locations are points [lid, t, x]
TemporalDistance(l1, l2) == IF l1.t >= l2.t THEN l1.t - l2.t ELSE l2.t - l1.t
SpatialDistance(l1, l2) == IF l1.x >= l2.x THEN l1.x - l2.x ELSE l2.x - l1.x

\* an optional value: None, or an attribute that was never assigned, is
\* [given |-> FALSE]
NoneValue == [given |-> FALSE, value |-> 0]
Some(v) == [given |-> TRUE, value |-> v]
Unset == NoneValue

\* int(abs(max_r - min_r) / 2)
HalfSpan(min_r, max_r) ==
    (IF max_r >= min_r THEN max_r - min_r ELSE min_r - max_r) \div 2

\* SwapLocations.__init__: the step attribute is assigned only when the
\* argument is falsy (None or 0); otherwise the attribute does not exist
StepAttribute(step_arg, min_r, max_r) ==
    IF ~step_arg.given \/ step_arg.value = 0
    THEN Some(HalfSpan(min_r, max_r))
    ELSE Unset

RECURSIVE RangeFrom(_, _, _)
RangeFrom(cur, stop, step) ==
    IF cur > stop THEN <<>> ELSE <<cur>> \o RangeFrom(cur + step, stop, step)

\* utils.inclusive_range(start, stop, step): start, start+step, ... <= stop,
\* with step 1 when step is None
InclusiveRange(start, stop, step) ==
    RangeFrom(start, stop, IF step.given THEN step.value ELSE 1)

\* variant: the one-per-trajectory filter is left out
KeepAll(U_prima, used_trajectories) == U_prima

RECURSIVE KeepFirstPerTrajectory(_, _)
\* [x for x in U_prima if x[0] not in used and (used.add(x[0]) or True)]
KeepFirstPerTrajectory(U_prima, used_trajectories) ==
    IF U_prima = <<>> THEN <<>>
    ELSE IF Head(U_prima).tid \in used_trajectories
         THEN KeepFirstPerTrajectory(Tail(U_prima), used_trajectories)
         ELSE <<Head(U_prima)>>
              \o KeepFirstPerTrajectory(Tail(U_prima),
                                        used_trajectories \cup {Head(U_prima).tid})

\* variant: a remembered distance is reused whatever pool index it is of
LookupAny(computed, i, fresh) ==
    IF DOMAIN computed # {}
    THEN computed[CHOOSE j \in DOMAIN computed : TRUE]
    ELSE fresh

\* try: d = computed[i]  except KeyError: d = <fresh distance>
Lookup(computed, i, fresh) ==
    IF i \in DOMAIN computed THEN computed[i] ELSE fresh

RECURSIVE ScanPool(_, _, _, _, _, _, _)
\* "for i, l in enumerate(remaining_locations)" for one radius pair, from
\* list position p (i = p - 1) on; memo holds the two dictionaries
\* temporal_distances_computed (t) and spatial_distances_computed (s)
ScanPool(pool, chosen_location, R_t, R_s, p, memo, U_prima) ==
    IF p > Len(pool) THEN [U_prima |-> U_prima, memo |-> memo]
    ELSE LET l == pool[p]
             i == p - 1
         IN IF chosen_location.tid = l.tid
            THEN ScanPool(pool, chosen_location, R_t, R_s, p + 1, memo,
                          U_prima)
            ELSE LET temporal_distance ==
                         Lookup(memo.t, i,
                                TemporalDistance(chosen_location.loc, l.loc))
                     memo_t == DictSet(memo.t, i, temporal_distance)
                 IN IF temporal_distance <= R_t
                    THEN LET distance ==
                                 Lookup(memo.s, i,
                                        SpatialDistance(chosen_location.loc,
                                                        l.loc))
                             memo_s == DictSet(memo.s, i, distance)
                         IN ScanPool(pool, chosen_location, R_t, R_s, p + 1,
                                     [t |-> memo_t, s |-> memo_s],
                                     IF 0 <= distance /\ distance <= R_s
                                     THEN Append(U_prima, l)
                                     ELSE U_prima)
                    ELSE ScanPool(pool, chosen_location, R_t, R_s, p + 1,
                                  [t |-> memo_t, s |-> memo.s], U_prima)

RECURSIVE SearchFrom(_, _, _, _, _, _, _)
\* the nested loops "for R_t in temporal_range: for R_s in spatial_range",
\* from position (it, is) on; found = FALSE models the return of None
SearchFrom(pool, chosen_location, kk, temporal_range, spatial_range, pos, memo) ==
    LET it == pos[1]
        is == pos[2]
    IN IF it > Len(temporal_range) THEN [found |-> FALSE, members |-> <<>>]
       ELSE IF is > Len(spatial_range)
            THEN SearchFrom(pool, chosen_location, kk, temporal_range,
                            spatial_range, <<it + 1, 1>>, memo)
            ELSE LET scan == ScanPool(pool, chosen_location,
                                      temporal_range[it], spatial_range[is],
                                      1, memo, <<>>)
                     U_prima == KeepFirstPerTrajectory(scan.U_prima, {})
                 IN IF Len(U_prima) >= kk - 1
                    THEN [found |-> TRUE, members |-> U_prima]
                    ELSE SearchFrom(pool, chosen_location, kk, temporal_range,
                                    spatial_range, <<it, is + 1>>, scan.memo)

\* SwapLocations.__build_cluster (both step attributes exist)
BuildCluster(pool, chosen_location, prm) ==
    LET temporal_range ==
            InclusiveRange(prm.min_r_t, prm.max_r_t,
                           IF prm.step_t.value > 0 THEN prm.step_t
                           ELSE NoneValue)
        spatial_range ==
            InclusiveRange(prm.min_r_s, prm.max_r_s,
                           IF prm.step_s.value > 0 THEN prm.step_s
                           ELSE NoneValue)
    IN SearchFrom(pool, chosen_location, prm.k, temporal_range, spatial_range,
                  <<1, 1>>, [t |-> EmptyDict, s |-> EmptyDict])

----------------------------------------------------------------------------
(* SwapLocations.run                                                       *)

Perms(n) == {p \in [1..n -> 1..n] : \A i, j \in 1..n : p[i] = p[j] => i = j}

\* variant: positions drawn with replacement instead of a permutation
ShufflesWithReplacement(U, kk) ==
    IF Len(U) >= kk THEN [1..Len(U) -> 1..Len(U)] ELSE {[i \in 1..Len(U) |-> i]}

\* the shuffles run() draws from: every order when a swap is performed
ShufflesOf(U, kk) ==
    IF Len(U) >= kk THEN Perms(Len(U)) ELSE {[i \in 1..Len(U) |-> i]}

\* list.remove(l): drops the first element equal to l; ok = FALSE is the
\* ValueError raised when there is none
ListRemove(pool, l) ==
    IF \E p \in DOMAIN pool : pool[p] = l
    THEN LET first == MinOf({p \in DOMAIN pool : pool[p] = l})
         IN [ok |-> TRUE,
             list |-> SubSeq(pool, 1, first - 1)
                      \o SubSeq(pool, first + 1, Len(pool))]
    ELSE [ok |-> FALSE, list |-> pool]

RECURSIVE RemoveEach(_, _)
\* for l in U: remaining_locations.remove(l)
RemoveEach(pool, U) ==
    IF U = <<>> THEN [ok |-> TRUE, list |-> pool]
    ELSE LET one == ListRemove(pool, Head(U))
         IN IF one.ok THEN RemoveEach(one.list, Tail(U)) ELSE one

\* an_t = get_trajectory(id); an_t.add_location(location, sort=False)
AddLocation(anon, id, location) ==
    [p \in DOMAIN anon |->
        IF anon[p].id = id
        THEN [anon[p] EXCEPT !.locations = Append(@, location)]
        ELSE anon[p]]

RECURSIVE AssignFrom(_, _, _, _)
\* for i, l in enumerate(U): ... trajectories_id[i] ... l[1]
AssignFrom(anon, U, trajectories_id, i) ==
    IF i > Len(U) THEN anon
    ELSE AssignFrom(AddLocation(anon, trajectories_id[i], U[i].loc),
                    U, trajectories_id, i + 1)

\* variant: only the first candidate joins the anchor
ClusterOfPair(chosen_location, built) ==
    <<chosen_location>>
        \o (IF built.members # <<>> THEN <<Head(built.members)>> ELSE <<>>)

\* the candidate members U after "if U_prima: U.extend(U_prima)"
ClusterOf(chosen_location, built) ==
    <<chosen_location>> \o (IF built.members # <<>> THEN built.members ELSE <<>>)

\* variant: a swap is performed whatever the size of U
SwapPerformedAlways(U, kk) == TRUE

\* if len(U) >= self.k
SwapPerformed(U, kk) == Len(U) >= kk

\* owner labellings of n pool positions: ids 1, 2, ... in dataset order
Owners(n) ==
    {own \in [1..n -> 1..n] :
        /\ n >= 1 => own[1] = 1
        /\ \A p \in 1..(n - 1) : own[p + 1] \in {own[p], own[p] + 1}}

\* <<min_r_t, max_r_t, min_r_s, max_r_s>>: an expanding search over the
\* radii 0 and 1, and a search at the single radius 0
RadiusBounds == {<<0, 1, 0, 1>>, <<0, 0, 0, 0>>}
StepArguments == {<<NoneValue, NoneValue>>, <<Some(1), Some(1)>>}

\* timestamps of the pool positions, ascending within one trajectory
StampsFor(n, own) ==
    {f \in [1..n -> Coords] :
        \A p \in 1..(n - 1) : own[p] = own[p + 1] => f[p] <= f[p + 1]}

SwapInputs ==
    UNION {
        UNION {
            {[n |-> n, own |-> own, ts |-> ts, xs |-> xs] :
                ts \in StampsFor(n, own), xs \in [1..n -> Coords]} :
            own \in Owners(n)} :
        n \in 0..MaxLocs}

LocationsOf(inp, id) ==
    LET at == SetToSeq({p \in 1..inp.n : inp.own[p] = id})
    IN [j \in 1..Len(at) |->
           [lid |-> at[j], t |-> inp.ts[at[j]], x |-> inp.xs[at[j]]]]

\* the state after SwapLocations.__init__
InitSwap ==
    \E inp \in SwapInputs, kk \in 1..MaxSwapK,
       r \in RadiusBounds, steps \in StepArguments :
        /\ sw_dataset =
               [id \in 1..Cardinality({inp.own[p] : p \in 1..inp.n}) |->
                    [id |-> id, locations |-> LocationsOf(inp, id)]]
        /\ sw_params =
               [k |-> kk,
                min_r_t |-> r[1], max_r_t |-> r[2],
                min_r_s |-> r[3], max_r_s |-> r[4],
                step_s |-> StepAttribute(steps[1], r[3], r[4]),
                step_t |-> StepAttribute(steps[2], r[1], r[2])]
        /\ remaining_locations = <<>>
        /\ sw_anonymized = <<>>
        /\ sw_last = [iter |-> 0]
        /\ sw_pc = "start"

\* the scenario dataset: trajectories 1..4 of one location each, placed
\* at two instants 90 s apart and two points 150 m apart
ScenarioIds == 1..4
ScenarioStamps == {0, 90}
ScenarioPoints == {0, 150}
\* <<min_r_t, max_r_t, min_r_s, max_r_s>> of the scenario
ScenarioRadii == <<60, 60, 100, 100>>

\* the state after SwapLocations.__init__ on the scenario dataset, k = 2
InitScenario ==
    \E ts \in [ScenarioIds -> ScenarioStamps],
       xs \in [ScenarioIds -> ScenarioPoints],
       steps \in StepArguments :
        /\ sw_dataset =
               [id \in ScenarioIds |->
                    [id |-> id,
                     locations |-> <<[lid |-> id, t |-> ts[id],
                                      x |-> xs[id]]>>]]
        /\ sw_params =
               [k |-> 2,
                min_r_t |-> ScenarioRadii[1], max_r_t |-> ScenarioRadii[2],
                min_r_s |-> ScenarioRadii[3], max_r_s |-> ScenarioRadii[4],
                step_s |-> StepAttribute(steps[1], ScenarioRadii[3],
                                         ScenarioRadii[4]),
                step_t |-> StepAttribute(steps[2], ScenarioRadii[1],
                                         ScenarioRadii[2])]
        /\ remaining_locations = <<>>
        /\ sw_anonymized = <<>>
        /\ sw_last = [iter |-> 0]
        /\ sw_pc = "start"

IdleSwap ==
    /\ sw_dataset = <<>>
    /\ sw_params = [k |-> 1]
    /\ remaining_locations = <<>>
    /\ sw_anonymized = <<>>
    /\ sw_last = [iter |-> 0]
    /\ sw_pc = "idle"

\* run(): the empty anonymized trajectories and the pool
SwRunStart ==
    /\ UNCHANGED notSwVars
    /\ sw_pc = "start"
    /\ sw_anonymized' =
           [p \in DOMAIN sw_dataset |->
                [id |-> sw_dataset[p].id, locations |-> <<>>]]
    /\ remaining_locations' =
           Flatten([p \in DOMAIN sw_dataset |->
                        [j \in DOMAIN sw_dataset[p].locations |->
                             [tid |-> sw_dataset[p].id,
                              loc |-> sw_dataset[p].locations[j]]]])
    /\ sw_pc' = "loop"
    /\ UNCHANGED <<sw_dataset, sw_params, sw_last>>

StepsSet == sw_params.step_t.given /\ sw_params.step_s.given

\* an iteration whose __build_cluster reads a step attribute that
\* __init__ did not assign: AttributeError leaves run()
SwBuildFails ==
    /\ UNCHANGED notSwVars
    /\ sw_pc = "loop"
    /\ remaining_locations # <<>>
    /\ ~StepsSet
    /\ sw_pc' = "failed"
    /\ UNCHANGED <<sw_dataset, sw_params, remaining_locations, sw_anonymized,
                   sw_last>>

\* one iteration of "while remaining_locations"
SwLoopStep ==
    /\ UNCHANGED notSwVars
    /\ sw_pc = "loop"
    /\ remaining_locations # <<>>
    /\ StepsSet
    /\ \E ci \in DOMAIN remaining_locations :
          LET chosen_location == remaining_locations[ci]
              built == BuildCluster(remaining_locations, chosen_location,
                                    sw_params)
              U == ClusterOf(chosen_location, built)
              trajectories_id == [i \in 1..Len(U) |-> U[i].tid]
              swap == SwapPerformed(U, sw_params.k)
          IN \E perm \in ShufflesOf(U, sw_params.k) :
                LET shuffled == [i \in 1..Len(U) |-> U[perm[i]]]
                    rest == RemoveEach(remaining_locations, shuffled)
                IN /\ sw_anonymized' =
                          (IF swap
                           THEN AssignFrom(sw_anonymized, shuffled,
                                           trajectories_id, 1)
                           ELSE sw_anonymized)
                   /\ remaining_locations' = rest.list
                   /\ sw_pc' = (IF rest.ok THEN "loop" ELSE "failed")
                   /\ sw_last' = [iter |-> 1,
                                  pool |-> remaining_locations,
                                  chosen |-> chosen_location,
                                  found |-> built.found,
                                  U |-> U,
                                  shuffled |-> shuffled,
                                  swapped |-> swap]
    /\ UNCHANGED <<sw_dataset, sw_params>>

\* the filter "len(t) > 1" and sort_trajectories()
SwFinish ==
    /\ UNCHANGED notSwVars
    /\ sw_pc = "loop"
    /\ remaining_locations = <<>>
    /\ LET kept == SelectSeq(sw_anonymized, LAMBDA t : Len(t.locations) > 1)
       IN sw_anonymized' =
              SortedBy(kept, [i \in 1..Len(kept) |-> kept[i].id])
    /\ sw_pc' = "done"
    /\ UNCHANGED <<sw_dataset, sw_params, remaining_locations, sw_last>>

NextSwap ==
    \/ SwRunStart
    \/ SwBuildFails
    \/ SwLoopStep
    \/ SwFinish

----------------------------------------------------------------------------
(* Stats.__take_closest and Stats.__take_closest_window                    *)
(* Positions are 0-based as in the code; myList[i] is list[i + 1] here.    *)

RECURSIVE BisectLeft(_, _, _, _)
\* bisect.bisect_left(a, x): the binary search of the standard library
BisectLeft(a, x, lo, hi) ==
    IF lo < hi
    THEN LET mid == (lo + hi) \div 2
         IN IF a[mid + 1] < x
            THEN BisectLeft(a, x, mid + 1, hi)
            ELSE BisectLeft(a, x, lo, mid)
    ELSE lo

TakeClosest(myList, myNumber) ==
    LET pos == BisectLeft(myList, myNumber, 0, Len(myList))
    IN IF pos = 0 THEN pos
       ELSE IF pos = Len(myList) THEN pos
       ELSE LET before == myList[pos]
                after == myList[pos + 1]
            IN IF after - myNumber < myNumber - before
               THEN pos
               ELSE pos - 1

\* range(a, b + 1) as a list
RECURSIVE RangeList(_, _)
RangeList(a, b) == IF a > b THEN <<>> ELSE <<a>> \o RangeList(a + 1, b)

\* variant: the truncation at the upper end is not given back at the lower
TakeClosestWindowNoCompensation(myList, myNumber, window_size) ==
    LET pos == TakeClosest(myList, myNumber)
        cut == window_size \div 2
        pos_before0 == pos - cut + (IF window_size % 2 = 0 THEN 1 ELSE 0)
        rest_before == IF pos_before0 < 0 THEN pos_before0 * (-1) ELSE 0
        pos_before1 == IF pos_before0 < 0 THEN 0 ELSE pos_before0
        pos_after0 == pos + cut
        pos_after1 == IF pos_after0 > Len(myList) - 1
                      THEN Len(myList) - 1 ELSE pos_after0
    IN RangeList(pos_before1, pos_after1 + rest_before)

TakeClosestWindow(myList, myNumber, window_size) ==
    LET pos == TakeClosest(myList, myNumber)
        cut == window_size \div 2
        pos_before0 == pos - cut + (IF window_size % 2 = 0 THEN 1 ELSE 0)
        rest_before == IF pos_before0 < 0 THEN pos_before0 * (-1) ELSE 0
        pos_before1 == IF pos_before0 < 0 THEN 0 ELSE pos_before0
        pos_after0 == pos + cut
        rest_after == IF pos_after0 > Len(myList) - 1
                      THEN pos_after0 - (Len(myList) - 1) ELSE 0
        pos_after1 == IF pos_after0 > Len(myList) - 1
                      THEN Len(myList) - 1 ELSE pos_after0
    IN RangeList(pos_before1 - rest_after, pos_after1 + rest_before)

----------------------------------------------------------------------------
(* Stats: the two functions applied to drawn arguments                     *)

SortedLists ==
    UNION {{l \in [1..n -> 0..MaxValue] :
                \A i \in 1..(n - 1) : l[i] <= l[i + 1]} :
           n \in 1..MaxListLen}

InitWindow ==
    /\ cw_list \in SortedLists
    /\ cw_number \in (-1)..(MaxValue + 1)
    /\ cw_size \in 1..MaxListLen
    /\ cw_pos = NoneValue
    /\ cw_window = NoneValue

IdleWindow ==
    /\ cw_list = <<>>
    /\ cw_number = 0
    /\ cw_size = 0
    /\ cw_pos = NoneValue
    /\ cw_window = NoneValue

CwTakeClosest ==
    /\ UNCHANGED notCwVars
    /\ cw_list # <<>>
    /\ ~cw_pos.given
    /\ cw_pos' = Some(TakeClosest(cw_list, cw_number))
    /\ UNCHANGED <<cw_list, cw_number, cw_size, cw_window>>

CwTakeClosestWindow ==
    /\ UNCHANGED notCwVars
    /\ cw_list # <<>>
    /\ ~cw_window.given
    /\ cw_window' = Some(TakeClosestWindow(cw_list, cw_number, cw_size))
    /\ UNCHANGED <<cw_list, cw_number, cw_size, cw_pos>>

NextWindow ==
    \/ CwTakeClosest
    \/ CwTakeClosestWindow

----------------------------------------------------------------------------
(* Stats: record linkage.  A trajectory is [id, content]; two trajectories *)
(* are duplicates (equal as dictionary keys) when their content is equal.  *)
(* Scores are exact fractions [num, den]; a raised exception is ok = FALSE.*)

Contents == {0, 1, 2}
RefPoints == {0, 1}

\* DistanceInterface.compute_without_map
ComputeWithoutMap(traj_ori, traj_anom) ==
    IF traj_ori.content >= traj_anom.content
    THEN traj_ori.content - traj_anom.content
    ELSE traj_anom.content - traj_ori.content

\* DistanceInterface.compute_distance_to_reference_trajectory
DistanceToReference(t, ref) ==
    IF t.content >= ref THEN t.content - ref ELSE ref - t.content

NoTrajectory == [given |-> FALSE, value |-> [id |-> 0, content |-> 0]]
Raised == [ok |-> FALSE, num |-> 0, den |-> 1]

RECURSIVE Factorial(_)
Factorial(n) == IF n <= 1 THEN 1 ELSE n * Factorial(n - 1)

\* the unit in which the credits 1 / count are summed without rounding
CreditUnit == Factorial(MaxOrig)

\* ids[trajectory]: the ids of the originals equal to the trajectory
IdsGroup(original, trajectory) ==
    LET same == SelectSeq(original,
                          LAMBDA t : t.content = trajectory.content)
    IN [i \in 1..Len(same) |-> same[i].id]

\* control[trajectory]
Control(original, trajectory) == Len(IdsGroup(original, trajectory))

\* variant: a match is credited 1 whatever the size of the group
CreditWhole(original, min_traj, traj_anom) ==
    IF traj_anom.id \in Range(IdsGroup(original, min_traj))
    THEN CreditUnit
    ELSE 0

\* lines 81-85 / 129-133: partial = 1 / count when the id is in the group
Credit(original, min_traj, traj_anom) ==
    IF traj_anom.id \in Range(IdsGroup(original, min_traj))
    THEN CreditUnit \div Control(original, min_traj)
    ELSE 0

RECURSIVE ScanAll(_, _, _, _)
\* "for traj_ori in trajectories: if dist < min_dist: ..." over the
\* trajectories still to scan; min_dist not given is float('inf')
ScanAll(to_scan, traj_anom, min_dist, min_traj) ==
    IF to_scan = <<>> THEN min_traj
    ELSE LET dist == ComputeWithoutMap(Head(to_scan), traj_anom)
         IN IF ~min_dist.given \/ dist < min_dist.value
            THEN ScanAll(Tail(to_scan), traj_anom, Some(dist),
                         Some(Head(to_scan)))
            ELSE ScanAll(Tail(to_scan), traj_anom, min_dist, min_traj)

RECURSIVE ExactFrom(_, _, _, _)
\* the loop over the anonymized trajectories still to visit
ExactFrom(original, to_visit, total_prob, min_traj) ==
    IF to_visit = <<>> THEN [ok |-> TRUE, total |-> total_prob]
    ELSE LET traj_anom == Head(to_visit)
             nearest == ScanAll(original, traj_anom, NoneValue, min_traj)
         IN IF ~nearest.given
            THEN [ok |-> FALSE, total |-> total_prob]   \* ids[None]: KeyError
            ELSE ExactFrom(original, Tail(to_visit),
                           total_prob
                               + Credit(original, nearest.value, traj_anom),
                           nearest)

\* variant: the division is guarded, an empty dataset scores as one of size 1
ScoreGuarded(total_prob, n) ==
    [ok |-> TRUE, num |-> total_prob * 100,
     den |-> CreditUnit * (IF n = 0 THEN 1 ELSE n)]

\* (total_prob / len(self.original_dataset)) * 100
Score(total_prob, n) ==
    IF n = 0 THEN Raised                                \* ZeroDivisionError
    ELSE [ok |-> TRUE, num |-> total_prob * 100, den |-> CreditUnit * n]

\* Stats.get_record_linkage
GetRecordLinkage(original, anonymized) ==
    LET r == ExactFrom(original, anonymized, 0, NoTrajectory)
    IN IF r.ok THEN Score(r.total, Len(original)) ELSE Raised

WINDOW_SIZE == 1

\* the window size used: the argument, or 1% of the dataset, or the whole
\* dataset when that is below 1.0
EffectiveWindow(window_size, n) ==
    IF window_size.given THEN window_size.value
    ELSE IF n * WINDOW_SIZE < 100 THEN n
    ELSE (n * WINDOW_SIZE) \div 100

RECURSIVE ScanWindow(_, _, _, _, _)
\* "for pos in closest_trajectories": list indexing as Python does it, a
\* negative position counting from the end, IndexError outside -n..n-1
ScanWindow(sorted, positions, traj_anom, min_dist, min_traj) ==
    IF positions = <<>> THEN [ok |-> TRUE, nearest |-> min_traj]
    ELSE LET pos == Head(positions)
             n == Len(sorted)
         IN IF pos >= n \/ pos < 0 - n
            THEN [ok |-> FALSE, nearest |-> min_traj]
            ELSE LET trajectory ==
                         IF pos >= 0 THEN sorted[pos + 1]
                         ELSE sorted[n + pos + 1]
                     dist == ComputeWithoutMap(trajectory, traj_anom)
                 IN IF ~min_dist.given \/ dist < min_dist.value
                    THEN ScanWindow(sorted, Tail(positions), traj_anom,
                                    Some(dist), Some(trajectory))
                    ELSE ScanWindow(sorted, Tail(positions), traj_anom,
                                    min_dist, min_traj)

RECURSIVE FastFrom(_, _, _, _, _, _, _)
\* the loop over the anonymized trajectories still to visit
FastFrom(sorted, distances, to_visit, window_size, ref, total_prob, min_traj) ==
    IF to_visit = <<>> THEN [ok |-> TRUE, total |-> total_prob]
    ELSE LET trajectory_anom == Head(to_visit)
             closest_trajectories ==
                 TakeClosestWindow(distances,
                                   DistanceToReference(trajectory_anom, ref),
                                   window_size)
             scan == ScanWindow(sorted, closest_trajectories,
                                trajectory_anom, NoneValue, min_traj)
         IN IF ~scan.ok \/ ~scan.nearest.given
            THEN [ok |-> FALSE, total |-> total_prob]
            ELSE FastFrom(sorted, distances, Tail(to_visit), window_size, ref,
                          total_prob
                              + Credit(sorted, scan.nearest.value,
                                       trajectory_anom),
                          scan.nearest)

\* variant: the dataset is left as the search sorted it
LeftAsSorted(trajectories) == trajectories

\* "rearranging": self.original_dataset.trajectories.sort(key=lambda x: x.id)
RearrangeById(trajectories) ==
    SortedBy(trajectories,
             [i \in 1..Len(trajectories) |-> trajectories[i].id])

\* Stats.get_fast_record_linkage: the outcome and the order in which the
\* original dataset is left
GetFastRecordLinkage(original, anonymized, window_arg, ref) ==
    LET window_size == EffectiveWindow(window_arg, Len(original))
        sorted == SortedBy(original,
                           [i \in 1..Len(original) |->
                                DistanceToReference(original[i], ref)])
        distances == [i \in 1..Len(sorted) |->
                          DistanceToReference(sorted[i], ref)]
        r == FastFrom(sorted, distances, anonymized, window_size, ref, 0,
                      NoTrajectory)
        by_id == RearrangeById(sorted)
    IN IF r.ok
       THEN [outcome |-> Score(r.total, Len(original)), original |-> by_id]
       ELSE [outcome |-> Raised, original |-> sorted]

\* strictly ascending id lists of length m over 1..top
RECURSIVE AscendingIds(_, _)
AscendingIds(m, top) ==
    IF m = 0 THEN {<<>>}
    ELSE UNION {{Append(s, id) : s \in AscendingIds(m - 1, id - 1)} :
                id \in 1..top}

StatsInputs ==
    UNION {
        {[n |-> n, contents |-> cs, ids |-> ids] :
            cs \in [1..n -> Contents],
            ids \in UNION {AscendingIds(m, IF n = 0 THEN 1 ELSE n) :
                               m \in 0..MaxAnon}} :
        n \in 0..MaxOrig}

\* the state after Stats.__init__, with the arguments of the calls to come
InitStats ==
    \E inp \in StatsInputs :
        /\ st_original =
               [i \in 1..inp.n |->
                    [id |-> i, content |-> inp.contents[i]]]
        /\ \E acs \in [1..Len(inp.ids) -> Contents] :
              st_anonymized =
                  [i \in 1..Len(inp.ids) |->
                       [id |-> inp.ids[i], content |-> acs[i]]]
        /\ st_window \in {NoneValue} \cup {Some(w) : w \in 1..(MaxOrig + 1)}
        /\ st_ref \in RefPoints
        /\ st_exact = NoneValue
        /\ st_fast = NoneValue

IdleStats ==
    /\ st_original = <<>>
    /\ st_anonymized = <<>>
    /\ st_window = NoneValue
    /\ st_ref = 0
    /\ st_exact = NoneValue
    /\ st_fast = NoneValue

\* a call of get_record_linkage(distance)
StGetRecordLinkage ==
    /\ UNCHANGED notStVars
    /\ ~st_exact.given
    /\ st_exact' = Some(GetRecordLinkage(st_original, st_anonymized))
    /\ UNCHANGED <<st_original, st_anonymized, st_window, st_ref, st_fast>>

\* a call of get_fast_record_linkage(distance, window_size)
StGetFastRecordLinkage ==
    /\ UNCHANGED notStVars
    /\ ~st_fast.given
    /\ LET r == GetFastRecordLinkage(st_original, st_anonymized, st_window,
                                     st_ref)
       IN /\ st_fast' = Some(r.outcome)
          /\ st_original' = r.original
    /\ UNCHANGED <<st_anonymized, st_window, st_ref, st_exact>>

NextStats ==
    \/ StGetRecordLinkage
    \/ StGetFastRecordLinkage

----------------------------------------------------------------------------
(* TimePartMicroaggregation: state machine of run()                        *)

Intervals == (-1)..MaxInterval

MicroInputs ==
    {[n |-> n, stamps |-> st, kk |-> kk, itv |-> itv] :
        n \in {0}, st \in {<<>>}, kk \in 1..MaxK, itv \in Intervals}
    \cup UNION {
        {[n |-> n, stamps |-> st, kk |-> kk, itv |-> itv] :
            st \in [1..n -> 0..MaxTs], kk \in 1..MaxK, itv \in Intervals} :
        n \in 1..MaxTraj}

\* the state after TimePartMicroaggregation.__init__
InitMicro ==
    \E inp \in MicroInputs :
        /\ dataset = [i \in 1..inp.n |-> MkTrajectory(i, inp.stamps[i])]
        /\ k = inp.kk
        /\ interval = inp.itv
        /\ ordered_trajectories = <<>>
        /\ datasets = <<>>
        /\ part_i = 0
        /\ clusters = EmptyDict
        /\ centroids = EmptyDict
        /\ anonymized_dataset = <<>>
        /\ cluster_log = <<>>
        /\ ma_pc = "start"

IdleMicro ==
    /\ dataset = <<>>
    /\ k = 1
    /\ interval = 0
    /\ ordered_trajectories = <<>>
    /\ datasets = <<>>
    /\ part_i = 0
    /\ clusters = EmptyDict
    /\ centroids = EmptyDict
    /\ anonymized_dataset = <<>>
    /\ cluster_log = <<>>
    /\ ma_pc = "idle"

\* run(): index assignment and the sort by first-location timestamp
MaRunStart ==
    /\ UNCHANGED notMaVars
    /\ ma_pc = "start"
    /\ ordered_trajectories' =
           SortedBy(dataset, [i \in 1..Len(dataset) |-> FirstTs(dataset[i])])
    /\ datasets' = <<>>
    /\ ma_pc' = "partition"
    /\ UNCHANGED <<dataset, k, interval, part_i, clusters, centroids,
                   anonymized_dataset, cluster_log>>

\* one iteration of "while len(ordered_trajectories) >= self.k"
MaPartitionStep ==
    /\ UNCHANGED notMaVars
    /\ ma_pc = "partition"
    /\ Len(ordered_trajectories) >= k
    /\ LET np == NextPartition(ordered_trajectories, k, interval)
       IN /\ datasets' = Append(datasets, np[1])
          /\ ordered_trajectories' = np[2]
    /\ UNCHANGED <<dataset, k, interval, part_i, clusters, centroids,
                   anonymized_dataset, cluster_log, ma_pc>>

\* variant: the trailing remainder becomes a batch of its own
MaMergeTrailingOwnBatch ==
    /\ UNCHANGED notMaVars
    /\ ma_pc = "partition"
    /\ Len(ordered_trajectories) < k
    /\ datasets' = Append(datasets, ordered_trajectories)
    /\ ma_pc' = "cluster"
    /\ UNCHANGED <<dataset, k, interval, ordered_trajectories, part_i,
                   clusters, centroids, anonymized_dataset, cluster_log>>

\* variant: with no batch to extend the merge is skipped
MaMergeTrailingIfAny ==
    /\ UNCHANGED notMaVars
    /\ ma_pc = "partition"
    /\ Len(ordered_trajectories) < k
    /\ datasets' = (IF datasets = <<>> THEN datasets
                    ELSE [datasets EXCEPT
                              ![Len(datasets)] = @ \o ordered_trajectories])
    /\ ma_pc' = "cluster"
    /\ UNCHANGED <<dataset, k, interval, ordered_trajectories, part_i,
                   clusters, centroids, anonymized_dataset, cluster_log>>

\* datasets[-1].trajectories.extend(ordered_trajectories)
MaMergeTrailing ==
    /\ UNCHANGED notMaVars
    /\ ma_pc = "partition"
    /\ Len(ordered_trajectories) < k
    /\ \/ /\ datasets = <<>>          \* datasets[-1] raises IndexError
          /\ ma_pc' = "failed"
          /\ UNCHANGED datasets
       \/ /\ datasets # <<>>
          /\ datasets' = [datasets EXCEPT
                             ![Len(datasets)] = @ \o ordered_trajectories]
          /\ ma_pc' = "cluster"
    /\ UNCHANGED <<dataset, k, interval, ordered_trajectories, part_i,
                   clusters, centroids, anonymized_dataset, cluster_log>>

\* one iteration of "for i, dataset in enumerate(datasets)"
MaClusterStep ==
    /\ UNCHANGED notMaVars
    /\ ma_pc = "cluster"
    /\ part_i < Len(datasets)
    /\ \E cl \in ClusteringsOf(datasets[part_i + 1]) :
          LET res == ProcessClusters(cl, centroids, anonymized_dataset)
          IN /\ clusters' = cl
             /\ centroids' = res[1]
             /\ anonymized_dataset' = res[2]
             /\ cluster_log' = cluster_log
                    \o [j \in 1..Cardinality(DOMAIN cl) |->
                            cl[SetToSeq(DOMAIN cl)[j]]]
    /\ part_i' = part_i + 1
    /\ UNCHANGED <<dataset, k, interval, ordered_trajectories, datasets, ma_pc>>

\* self.anonymized_dataset.trajectories.sort(key=lambda t: t.id)
MaFinish ==
    /\ UNCHANGED notMaVars
    /\ ma_pc = "cluster"
    /\ part_i = Len(datasets)
    /\ anonymized_dataset' =
           SortedBy(anonymized_dataset,
                    [i \in 1..Len(anonymized_dataset) |->
                         anonymized_dataset[i].id])
    /\ ma_pc' = "done"
    /\ UNCHANGED <<dataset, k, interval, ordered_trajectories, datasets,
                   part_i, clusters, centroids, cluster_log>>

NextMicro ==
    \/ MaRunStart
    \/ MaPartitionStep
    \/ MaMergeTrailing
    \/ MaClusterStep
    \/ MaFinish

InitM == InitMicro /\ IdleSwap /\ IdleStats /\ IdleWindow
SpecMicro == InitM /\ [][NextMicro]_vars

InitS == IdleMicro /\ InitSwap /\ IdleStats /\ IdleWindow
SpecSwap == InitS /\ [][NextSwap]_vars

InitSc == IdleMicro /\ InitScenario /\ IdleStats /\ IdleWindow
SpecScenario == InitSc /\ [][NextSwap]_vars

InitR == IdleMicro /\ IdleSwap /\ InitStats /\ IdleWindow
SpecStats == InitR /\ [][NextStats]_vars

InitW == IdleMicro /\ IdleSwap /\ IdleStats /\ InitWindow
SpecWindow == InitW /\ [][NextWindow]_vars

----------------------------------------------------------------------------
(* Properties of the time partitioning and of the orchestrator             *)

Occurrences(s, x) == Cardinality({p \in DOMAIN s : s[p] = x})

MaPartitioned == ma_pc \in {"cluster", "done"}

\* C1: once run() has partitioned a dataset of at least k trajectories
\* (trailing merge included), every input trajectory is in exactly one
\* batch and every batch member is an input trajectory; while the loop is
\* still running, the batches and the rest together hold each once.
C1_BatchesCoverInputOnce ==
    /\ MaPartitioned =>
          LET flat == Flatten(datasets)
          IN /\ \A t \in Range(dataset) : Occurrences(flat, t) = 1
             /\ Range(flat) \subseteq Range(dataset)
    /\ ma_pc = "partition" =>
          LET flat == Flatten(datasets) \o ordered_trajectories
          IN /\ \A t \in Range(dataset) : Occurrences(flat, t) = 1
             /\ Range(flat) \subseteq Range(dataset)

\* a partitioned run whose last batch received a trailing remainder
C1_Witness ==
    /\ ma_pc = "cluster"
    /\ ordered_trajectories # <<>>
    /\ Len(datasets[Len(datasets)]) > k
    /\ Len(dataset) >= k

\* C2: every batch the clustering loop iterates over, and every batch
\* completed so far, holds at least k trajectories.
C2_EveryBatchHasK ==
    ma_pc \in {"partition", "cluster", "done"} =>
        \A b \in DOMAIN datasets : Len(datasets[b]) >= k

\* a first batch that the time window left short (negative interval) and
\* was force-filled to k = 2, followed by a merged trailing remainder
C2_Witness ==
    /\ ma_pc = "cluster"
    /\ k >= 2
    /\ interval < 0
    /\ ordered_trajectories # <<>>
    /\ part_i = 1

AnonWithId(id) ==
    {p \in DOMAIN anonymized_dataset : anonymized_dataset[p].id = id}

\* C7: each original id has at most one anonymized trajectory (exactly one
\* once its batch is processed); it carries the member's id and user id
\* and the aggregate of the member's cluster, so the members of one
\* cluster share one location sequence.
C7_AnonymizedIsClusterAggregate ==
    MaPartitioned =>
        /\ \A t \in Range(dataset) : Cardinality(AnonWithId(t.id)) <= 1
        /\ \A c \in DOMAIN cluster_log :
              \A m \in DOMAIN cluster_log[c] :
                 LET member == cluster_log[c][m]
                     got == AnonWithId(member.id)
                 IN /\ Cardinality(got) = 1
                    /\ \A p \in got :
                          /\ anonymized_dataset[p].user_id = member.user_id
                          /\ anonymized_dataset[p].locations =
                                 AggregationCompute(cluster_log[c]).locations
        /\ \A p \in DOMAIN anonymized_dataset :
              \E c \in DOMAIN cluster_log : \E m \in DOMAIN cluster_log[c] :
                  cluster_log[c][m].id = anonymized_dataset[p].id
        /\ ma_pc = "done" => Len(anonymized_dataset) = Len(dataset)

\* a finished run over two batches with a cluster of two members that
\* start at different times
C7_Witness ==
    /\ ma_pc = "done"
    /\ Len(datasets) >= 2
    /\ \E c \in DOMAIN cluster_log :
          /\ Len(cluster_log[c]) >= 2
          /\ FirstTs(cluster_log[c][1]) # FirstTs(cluster_log[c][2])

----------------------------------------------------------------------------
(* Properties of SwapLocations                                             *)

\* the last loop iteration has run and its effect is still in place (the
\* final filter has not yet dropped short trajectories)
SwIterated == sw_last.iter = 1 /\ sw_pc # "done"

\* how often a location occurs in the anonymized trajectories
TimesAssigned(location) ==
    Cardinality({pq \in {<<p, q>> : p \in DOMAIN sw_anonymized,
                                    q \in 1..MaxLocs + 1} :
                    /\ pq[2] \in DOMAIN sw_anonymized[pq[1]].locations
                    /\ sw_anonymized[pq[1]].locations[pq[2]] = location})

AnonTrajectory(id) ==
    sw_anonymized[CHOOSE p \in DOMAIN sw_anonymized : sw_anonymized[p].id = id]

AllLocations ==
    UNION {Range(sw_dataset[p].locations) : p \in DOMAIN sw_dataset}

\* C3 as stated: after an iteration whose search found no qualifying
\* cluster the anchor's location is in the anchor's own anonymized
\* trajectory, and once the pool is exhausted every location of the
\* dataset is in some anonymized trajectory.
C3_AnchorAssignedBack ==
    /\ (SwIterated /\ ~sw_last.found) =>
           sw_last.chosen.loc
               \in Range(AnonTrajectory(sw_last.chosen.tid).locations)
    /\ (sw_pc = "loop" /\ sw_last.iter = 1 /\ remaining_locations = <<>>) =>
           \A l \in AllLocations : TimesAssigned(l) >= 1

\* C3 amended: an iteration that performs no swap (fewer than k members,
\* which for k >= 2 is every iteration whose search found no cluster)
\* assigns the anchor to no anonymized trajectory and only removes it from
\* the pool; a location is never assigned twice, and never both assigned
\* and still in the pool.
C3_UnclusteredAnchorDropped ==
    /\ (SwIterated /\ ~sw_last.found /\ sw_params.k >= 2) => ~sw_last.swapped
    /\ (SwIterated /\ ~sw_last.swapped) =>
           /\ TimesAssigned(sw_last.chosen.loc) = 0
           /\ sw_last.chosen \notin Range(remaining_locations)
           /\ Len(remaining_locations) = Len(sw_last.pool) - 1
    /\ sw_pc = "loop" =>
           \A l \in AllLocations :
               /\ TimesAssigned(l) <= 1
               /\ TimesAssigned(l) = 1 =>
                      \A p \in DOMAIN remaining_locations :
                          remaining_locations[p].loc # l

\* an anchor without a cluster although another trajectory is in the pool
C3_Witness ==
    /\ SwIterated
    /\ ~sw_last.found
    /\ sw_params.k >= 2
    /\ \E p \in DOMAIN sw_last.pool : sw_last.pool[p].tid # sw_last.chosen.tid

\* C4: a cluster on which a swap is performed is the anchor followed by at
\* least k-1 members of the pool, none of them of the anchor's trajectory,
\* and the trajectory ids of the cluster are pairwise distinct.
C4_ClusterDistinctTrajectories ==
    (SwIterated /\ sw_last.swapped) =>
        LET U == sw_last.U
        IN /\ U[1] = sw_last.chosen
           /\ Len(U) >= sw_params.k
           /\ \A i \in DOMAIN U : U[i] \in Range(sw_last.pool)
           /\ \A i \in DOMAIN U : i # 1 => U[i].tid # sw_last.chosen.tid
           /\ \A i, j \in DOMAIN U : U[i].tid = U[j].tid => i = j

\* a swap whose pool held two locations of one foreign trajectory at the
\* same point, only one of which is in the cluster
C4_Witness ==
    /\ SwIterated
    /\ sw_last.swapped
    /\ Len(sw_last.U) >= 2
    /\ \E p, q \in DOMAIN sw_last.pool :
          /\ p # q
          /\ sw_last.pool[p].tid = sw_last.pool[q].tid
          /\ sw_last.pool[p].loc.t = sw_last.pool[q].loc.t
          /\ sw_last.pool[p].loc.x = sw_last.pool[q].loc.x
          /\ sw_last.pool[p] \in Range(sw_last.U)
          /\ sw_last.pool[q] \notin Range(sw_last.U)

\* C5: a performed swap gives each trajectory id of the cluster exactly one
\* of the cluster's locations and gives each location to exactly one
\* trajectory, whatever the shuffle; the anonymized trajectories show it.
C5_AssignmentIsBijection ==
    (SwIterated /\ sw_last.swapped) =>
        LET U == sw_last.U
            sh == sw_last.shuffled
            ids == {U[i].tid : i \in DOMAIN U}
            locs == {U[i].loc : i \in DOMAIN U}
        IN /\ Cardinality(ids) = Len(U)
           /\ Range(sh) = Range(U)
           /\ \A i, j \in DOMAIN sh : sh[i] = sh[j] => i = j
           /\ \A l \in locs : TimesAssigned(l) = 1
           /\ \A p \in DOMAIN sw_anonymized :
                 Cardinality({q \in DOMAIN sw_anonymized[p].locations :
                                  sw_anonymized[p].locations[q] \in locs})
                     = (IF sw_anonymized[p].id \in ids THEN 1 ELSE 0)
           /\ \A i \in DOMAIN U :
                 sh[i].loc \in Range(AnonTrajectory(U[i].tid).locations)

\* a swap of three locations in which no location went back to its own
\* trajectory
C5_Witness ==
    /\ SwIterated
    /\ sw_last.swapped
    /\ Len(sw_last.U) >= 3
    /\ \A i \in DOMAIN sw_last.U : sw_last.shuffled[i] # sw_last.U[i]

\* C6 as stated: every iteration of the main loop, entered with a
\* non-empty pool, leaves the pool strictly smaller and stays in the loop
\* (so run() ends only with the pool empty).
C6_PoolShrinksEveryIteration ==
    [][(sw_pc = "loop" /\ remaining_locations # <<>>) =>
           /\ Len(remaining_locations') < Len(remaining_locations)
           /\ sw_pc' = "loop"]_vars

----------------------------------------------------------------------------
(* Properties of the window selection                                      *)

AbsDiff(a, b) == IF a >= b THEN a - b ELSE b - a

\* C9: for a sorted list of length n and 1 <= window_size <= n the window
\* is exactly window_size consecutive positions, all within 0..n-1, and it
\* holds the position of the closest-value search (the last position when
\* the search answers n, the target being above every value).
C9_WindowIsExactAndInside ==
    (cw_window.given /\ cw_size >= 1 /\ cw_size <= Len(cw_list)) =>
        LET win == cw_window.value
            n == Len(cw_list)
            pos == TakeClosest(cw_list, cw_number)
        IN /\ Len(win) = cw_size
           /\ \A i \in 1..(Len(win) - 1) : win[i + 1] = win[i] + 1
           /\ \A i \in DOMAIN win : win[i] >= 0 /\ win[i] <= n - 1
           /\ (IF pos = n THEN n - 1 ELSE pos) \in Range(win)

\* a window of the whole list for a target above every value: the upper
\* end is truncated and the lower end extended
C9_Witness ==
    /\ cw_window.given
    /\ cw_size = Len(cw_list)
    /\ cw_size >= 2
    /\ cw_number > cw_list[Len(cw_list)]

\* C10 as stated: for every non-empty sorted list and every target the
\* result is a position of the list whose value is closest to the target,
\* and of two equally close values the smaller one's position is returned.
C10_ClosestIsAnIndex ==
    cw_pos.given =>
        LET pos == cw_pos.value
            n == Len(cw_list)
        IN /\ pos >= 0 /\ pos <= n - 1
           /\ \A j \in 1..n :
                 /\ AbsDiff(cw_list[pos + 1], cw_number)
                        <= AbsDiff(cw_list[j], cw_number)
                 /\ (AbsDiff(cw_list[pos + 1], cw_number)
                        = AbsDiff(cw_list[j], cw_number))
                    => cw_list[pos + 1] <= cw_list[j]

----------------------------------------------------------------------------
(* Properties of the record linkage estimator                              *)

\* C8 as stated: whenever window_size is at least the number of original
\* trajectories, get_fast_record_linkage and get_record_linkage end the
\* same way on the same datasets, with the same score.
C8_FastEqualsExactOnFullWindow ==
    (/\ st_exact.given
     /\ st_fast.given
     /\ st_window.given
     /\ st_window.value >= Len(st_original)) =>
        st_fast.value = st_exact.value

----------------------------------------------------------------------------
(* The exact record linkage score, stated from the datasets alone          *)

\* position of the first original at minimum unmapped distance
NearestPosition(original, a) ==
    CHOOSE m \in DOMAIN original :
        /\ \A j \in DOMAIN original :
               ComputeWithoutMap(original[m], a)
                   <= ComputeWithoutMap(original[j], a)
        /\ \A j \in 1..(m - 1) :
               ComputeWithoutMap(original[j], a)
                   > ComputeWithoutMap(original[m], a)

\* positions of the originals with the content of the nearest one
DuplicateGroup(original, a) ==
    {j \in DOMAIN original :
        original[j].content = original[NearestPosition(original, a)].content}

\* 1/g in credit units when the id is in the group, otherwise 0
ExpectedCredit(original, a) ==
    IF \E j \in DuplicateGroup(original, a) : original[j].id = a.id
    THEN CreditUnit \div Cardinality(DuplicateGroup(original, a))
    ELSE 0

RECURSIVE ExpectedTotal(_, _)
ExpectedTotal(original, anonymized) ==
    IF anonymized = <<>> THEN 0
    ELSE ExpectedCredit(original, Head(anonymized))
             + ExpectedTotal(original, Tail(anonymized))

\* C11: for non-empty datasets a call of get_record_linkage returns
\* 100 * (sum of the credits) / (number of originals), the credit of an
\* anonymized trajectory being 1/g when its id is in the duplicate group
\* (size g) of the first original at minimum distance, and 0 otherwise.
C11_ExactScoreIsCreditAverage ==
    [][(/\ ~st_exact.given
        /\ st_exact'.given
        /\ st_original # <<>>
        /\ st_anonymized # <<>>) =>
           /\ st_exact'.value.ok
           /\ st_exact'.value.num * CreditUnit * Len(st_original)
                  = 100 * ExpectedTotal(st_original, st_anonymized)
                        * st_exact'.value.den]_vars

\* a score in which a duplicate group of two earned half a credit
C11_Witness ==
    /\ st_exact.given
    /\ st_exact.value.ok
    /\ ~st_fast.given
    /\ \E i \in DOMAIN st_anonymized :
           /\ Cardinality(DuplicateGroup(st_original, st_anonymized[i])) = 2
           /\ ExpectedCredit(st_original, st_anonymized[i]) > 0

\* C12 as stated: with an empty original dataset, or with an empty
\* anonymized dataset, both estimators end in a failure.
C12_EmptyInputFails ==
    (st_original = <<>> \/ st_anonymized = <<>>) =>
        /\ st_exact.given => ~st_exact.value.ok
        /\ st_fast.given => ~st_fast.value.ok

\* C12 as the code has it: both estimators fail on an empty original
\* dataset; on an empty anonymized dataset with originals present both
\* return the score 0.
C12_EmptyOriginalFailsEmptyAnonymizedScoresZero ==
    /\ st_original = <<>> =>
           /\ st_exact.given => ~st_exact.value.ok
           /\ st_fast.given => ~st_fast.value.ok
    /\ (st_original # <<>> /\ st_anonymized = <<>>) =>
           /\ st_exact.given =>
                  st_exact.value.ok /\ st_exact.value.num = 0
           /\ st_fast.given =>
                  st_fast.value.ok /\ st_fast.value.num = 0

\* both estimators were called on an empty anonymized dataset
C12_Witness ==
    /\ st_exact.given
    /\ st_fast.given
    /\ st_anonymized = <<>>
    /\ st_original # <<>>

----------------------------------------------------------------------------
(* The swap scenario: 4 trajectories, k = 2, radii 60 s and 100 m          *)

\* the foreign trajectories with a pool location within both radii of the
\* anchor of the last iteration
ForeignInRadius ==
    {sw_last.pool[p].tid : p \in
        {q \in DOMAIN sw_last.pool :
            /\ sw_last.pool[q].tid # sw_last.chosen.tid
            /\ TemporalDistance(sw_last.chosen.loc, sw_last.pool[q].loc)
                   <= sw_params.max_r_t
            /\ SpatialDistance(sw_last.chosen.loc, sw_last.pool[q].loc)
                   <= sw_params.max_r_s}}

\* C13 as stated: an anchor with at least one foreign pool location within
\* both radii forms a cluster of exactly 2 locations.
C13_ClusterOfExactlyTwo ==
    (SwIterated /\ ForeignInRadius # {}) => Len(sw_last.U) = 2

\* C13 as the code has it: such an anchor forms a cluster of the anchor
\* and one location of every foreign trajectory within the radii, so of
\* 2, 3 or 4 locations, and the swap is performed on all of them.
C13_ClusterOfAnchorAndEveryForeign ==
    (SwIterated /\ ForeignInRadius # {}) =>
        /\ sw_last.found
        /\ sw_last.swapped
        /\ Len(sw_last.U) = 1 + Cardinality(ForeignInRadius)
        /\ {sw_last.U[i].tid : i \in 2..Len(sw_last.U)} = ForeignInRadius

\* an anchor with two foreign trajectories within the radii
C13_Witness ==
    /\ SwIterated
    /\ Cardinality(ForeignInRadius) >= 2

----------------------------------------------------------------------------
(* Frame of the fast record linkage                                        *)

\* C14: a call of get_fast_record_linkage that returns a score leaves the
\* original dataset with the same trajectories as before, in ascending id
\* order, and leaves the anonymized dataset as it was.
C14_FastRestoresIdOrder ==
    [][(~st_fast.given /\ st_fast'.given /\ st_fast'.value.ok) =>
           /\ Len(st_original') = Len(st_original)
           /\ \A t \in Range(st_original) :
                  Occurrences(st_original', t) = Occurrences(st_original, t)
           /\ \A i \in 1..(Len(st_original') - 1) :
                  st_original'[i].id < st_original'[i + 1].id
           /\ st_anonymized' = st_anonymized]_vars

\* a score was returned for a dataset whose order by distance to the
\* reference trajectory is not its order by id
C14_Witness ==
    /\ st_fast.given
    /\ st_fast.value.ok
    /\ st_anonymized # <<>>
    /\ \E i, j \in DOMAIN st_original :
           /\ i < j
           /\ DistanceToReference(st_original[i], st_ref)
                  > DistanceToReference(st_original[j], st_ref)

----------------------------------------------------------------------------
(* The radius steps of the expanding search                                *)

\* C15 as stated: whether the steps were supplied or defaulted, the
\* instance holds a temporal and a spatial step for the search to iterate
\* with, and no run stops in its first search for want of one.
C15_StepsAvailableToSearch ==
    sw_pc # "idle" =>
        /\ sw_params.step_t.given
        /\ sw_params.step_s.given
        /\ ~(sw_pc = "failed" /\ sw_last.iter = 0)

----------------------------------------------------------------------------
(* The order of the expanding search                                       *)

\* the radius pairs <<it, is>> as positions in the two ranges
RadiusPairs ==
    LET temporal_range == InclusiveRange(sw_params.min_r_t, sw_params.max_r_t,
                                         IF sw_params.step_t.value > 0
                                         THEN sw_params.step_t ELSE NoneValue)
        spatial_range == InclusiveRange(sw_params.min_r_s, sw_params.max_r_s,
                                        IF sw_params.step_s.value > 0
                                        THEN sw_params.step_s ELSE NoneValue)
    IN {[R_t |-> temporal_range[it], R_s |-> spatial_range[is],
         it |-> it, is |-> is] :
            it \in DOMAIN temporal_range, is \in DOMAIN spatial_range}

\* temporal outer loop, spatial inner loop
TriedBefore(a, b) == a.it < b.it \/ (a.it = b.it /\ a.is < b.is)

\* pool positions of a foreign trajectory within both radii of the anchor,
\* the distances computed afresh
WithinAt(pr) ==
    {p \in DOMAIN sw_last.pool :
        /\ sw_last.pool[p].tid # sw_last.chosen.tid
        /\ TemporalDistance(sw_last.chosen.loc, sw_last.pool[p].loc) <= pr.R_t
        /\ SpatialDistance(sw_last.chosen.loc, sw_last.pool[p].loc) <= pr.R_s}

QualifiesAt(pr) ==
    Cardinality({sw_last.pool[p].tid : p \in WithinAt(pr)})
        >= sw_params.k - 1

\* the first pool position of every foreign trajectory within the radii
CandidatesAt(pr) ==
    {p \in WithinAt(pr) :
        \A q \in WithinAt(pr) :
            sw_last.pool[q].tid = sw_last.pool[p].tid => p <= q}

\* C16: the search returns the candidates (one per foreign trajectory, in
\* pool order) of the first radius pair, temporal loop outside and spatial
\* loop inside with the smallest radii first, at which at least k-1
\* foreign trajectories are within both radii; it returns no cluster
\* exactly when no pair qualifies.  The distances are the fresh ones, so
\* the remembered distances change nothing.
C16_FirstQualifyingPair ==
    SwIterated =>
        /\ sw_last.found <=> \E pr \in RadiusPairs : QualifiesAt(pr)
        /\ sw_last.found =>
              \E pr \in RadiusPairs :
                  /\ QualifiesAt(pr)
                  /\ \A other \in RadiusPairs :
                         TriedBefore(other, pr) => ~QualifiesAt(other)
                  /\ Tail(sw_last.U) =
                         [j \in 1..Cardinality(CandidatesAt(pr)) |->
                              sw_last.pool[SetToSeq(CandidatesAt(pr))[j]]]
        /\ ~sw_last.found => sw_last.U = <<sw_last.chosen>>

\* a cluster accepted at the radius pair tried last, after the pair with
\* the larger temporal radius alone had been tried and remembered distances
\* of two foreign locations had been read again
C16_Witness ==
    /\ SwIterated
    /\ sw_last.found
    /\ sw_params.k = 2
    /\ Cardinality(RadiusPairs) = 4
    /\ \A pr \in RadiusPairs :
           QualifiesAt(pr) <=> (pr.it = 2 /\ pr.is = 2)
    /\ Cardinality({p \in DOMAIN sw_last.pool :
                       sw_last.pool[p].tid # sw_last.chosen.tid}) >= 2

----------------------------------------------------------------------------
(* The accumulation rule of the time partitioning                          *)

\* C17 as stated: for every k >= 1, two trajectories adjacent in the sorted
\* order are in different batches only if the later one starts after the
\* first start timestamp of the earlier one's batch plus the interval.
C17_SplitOnlyBeyondInterval ==
    MaPartitioned =>
        \A b \in 1..(Len(datasets) - 1) :
            FirstTs(datasets[b + 1][1]) > FirstTs(datasets[b][1]) + interval

----------------------------------------------------------------------------
(* The scratch maps of the microaggregation                                *)

\* C18 as stated: after each partition is processed, clusters and
\* centroids both hold exactly the entries of that partition: the clusters
\* the strategy returned for it and one representative per such cluster.
C18_ScratchHoldsLastPartition ==
    (ma_pc \in {"cluster", "done"} /\ part_i >= 1) =>
        /\ \A t \in Range(datasets[part_i]) :
               \E c \in DOMAIN clusters : t \in Range(clusters[c])
        /\ \A c \in DOMAIN clusters :
               Range(clusters[c]) \subseteq Range(datasets[part_i])
        /\ DOMAIN centroids = DOMAIN clusters
        /\ \A c \in DOMAIN clusters :
               centroids[c] = AggregationCompute(clusters[c])

----------------------------------------------------------------------------
(* A dataset smaller than k                                                *)

\* C19: run() on a dataset of fewer than k trajectories (the empty dataset
\* included) builds no batch, can only go on to the trailing merge, which
\* fails for want of a last batch, never calls the clustering strategy and
\* leaves the anonymized dataset empty; it never ends normally.
C19_TooSmallDatasetFailsAtMerge ==
    (ma_pc # "idle" /\ Len(dataset) < k) =>
        /\ ma_pc \in {"start", "partition", "failed"}
        /\ datasets = <<>>
        /\ ma_pc = "partition" => Len(ordered_trajectories) < k
        /\ cluster_log = <<>>
        /\ clusters = EmptyDict
        /\ anonymized_dataset = <<>>

\* the run of a single trajectory with k = 2 has failed
C19_Witness ==
    /\ ma_pc = "failed"
    /\ Len(dataset) = 1
    /\ k = 2

====
